---- MODULE Spec2Model ----
(***************************************************************************)
(* PERT / CPM calculator of the pert application (pert_calculator.py),     *)
(* together with the parts of models.py and forms.py that decide which     *)
(* tasks can reach it.                                                     *)
(*                                                                         *)
(* A task is identified by its code (an integer 1..MaxTaches here; codes   *)
(* are taken to be distinct over the whole database).  The database holds  *)
(* every task; `taches` is the collection handed to PertCalculator, tasks  *)
(* outside it belong to another project.  Querysets are ordered by code    *)
(* (Tache.Meta.ordering), so every loop of the code runs in code order.    *)
(* A nullable IntegerField is None == <<>> or Some(v) == <<v>>.            *)
(***************************************************************************)
EXTENDS Integers, Sequences, FiniteSets

MaxTaches == 3
MaxDuree == 2
MaxAppels == 2

Codes == 1..MaxTaches

None == <<>>
Some(v) == <<v>>

VARIABLES
    duree,             \* Tache.duree of every task in the database
    dependances,       \* Tache.dependances (many-to-many) of every task
    taches,            \* PertCalculator.taches: the codes of the collection
    objets,            \* derived fields of the in-memory Tache objects
    base,              \* derived fields as saved by Tache.save()
    dates_debut_tot,   \* PertCalculator.dates_debut_tot (dict)
    dates_fin_tot,     \* PertCalculator.dates_fin_tot (dict)
    dates_debut_tard,  \* PertCalculator.dates_debut_tard (dict)
    dates_fin_tard,    \* PertCalculator.dates_fin_tard (dict)
    pc,                \* position inside calculer()
    resultat,          \* value returned by the last calculer(): None or Some(BOOLEAN)
    erreur,            \* exception caught by the last calculer()
    appels,            \* number of calculer() calls started
    avant,             \* objets and base when the current call started
    precedent          \* outcome of the call before the current one

vars == <<duree, dependances, taches, objets, base, dates_debut_tot, dates_fin_tot,
          dates_debut_tard, dates_fin_tard, pc, resultat, erreur, appels, avant, precedent>>

entree == <<duree, dependances, taches>>
dicts == <<dates_debut_tot, dates_fin_tot, dates_debut_tard, dates_fin_tard>>

(* The six derived fields of Tache, all null until computed. *)
ChampsVides ==
    [date_debut_tot |-> None, date_fin_tot |-> None, date_debut_tard |-> None,
     date_fin_tard |-> None, marge_totale |-> None, marge_libre |-> None]

(* Tache.clean: "if self.duree and self.duree <= 0: raise ValidationError". *)
TacheClean(d) == ~(d # 0 /\ d <= 0)

(* TacheForm.clean_duree: "if duree and duree <= 0: raise ValidationError". *)
CleanDuree(d) == ~(d # 0 /\ d <= 0)

(* Reverse side of the many-to-many relation (related_name='successeurs'). *)
successeurs(c) == {s \in Codes : c \in dependances[s]}

Min(S) == CHOOSE x \in S : \A y \in S : x <= y
Max(S) == CHOOSE x \in S : \A y \in S : x >= y

(* A queryset evaluated to a list: ordered by code. *)
RECURSIVE ParCode(_)
ParCode(S) == IF S = {} THEN <<>> ELSE <<Min(S)>> \o ParCode(S \ {Min(S)})

RECURSIVE Inverse(_)
Inverse(s) == IF s = <<>> THEN <<>> ELSE Append(Inverse(Tail(s)), Head(s))

EmptyDict == [c \in {} |-> 0]

(* dict with d[k] = v assigned. *)
Affecter(d, k, v) == [c \in DOMAIN d \cup {k} |-> IF c = k THEN v ELSE d[c]]

(***************************************************************************)
(* _has_circular_dependency: recursive DFS with the sets visited and       *)
(* rec_stack.  The traversal state is [visited, rec_stack, found].         *)
(***************************************************************************)
RECURSIVE dfs(_, _)
RECURSIVE dfsDeps(_, _)

(* "for dep in tache.dependances.all()" of dfs, over the remaining deps. *)
dfsDeps(deps, st) ==
    IF deps = <<>> THEN st
    ELSE LET dep == Head(deps) IN
         IF dep \notin st.visited
         THEN LET r == dfs(dep, st) IN
              IF r.found THEN r ELSE dfsDeps(Tail(deps), r)
         ELSE IF dep \in st.rec_stack
              THEN [st EXCEPT !.found = TRUE]
              ELSE dfsDeps(Tail(deps), st)

dfs(tache_code, st) ==
    LET st1 == [visited |-> st.visited \cup {tache_code},
                rec_stack |-> st.rec_stack \cup {tache_code},
                found |-> FALSE]
        \* taches_dict.get(tache_code): None for a task outside the collection
        st2 == IF tache_code \in taches
               THEN dfsDeps(ParCode(dependances[tache_code]), st1)
               ELSE st1
    IN IF st2.found THEN st2
       ELSE [st2 EXCEPT !.rec_stack = @ \ {tache_code}]

(* Variant: the traversal starts from the first task only. *)
dfsDepuisPremiere(liste, st) ==
    IF liste = <<>> THEN st ELSE dfs(Head(liste), st)

(* "for tache in self.taches: if tache.code not in visited: if dfs(...)". *)
RECURSIVE dfsDepuis(_, _)
dfsDepuis(liste, st) ==
    IF liste = <<>> THEN st
    ELSE IF Head(liste) \notin st.visited
         THEN LET r == dfs(Head(liste), st) IN
              IF r.found THEN r ELSE dfsDepuis(Tail(liste), r)
         ELSE dfsDepuis(Tail(liste), st)

_has_circular_dependency ==
    dfsDepuis(ParCode(taches), [visited |-> {}, rec_stack |-> {}, found |-> FALSE]).found

(***************************************************************************)
(* _tri_topologique: Kahn's algorithm.  in_degree is a defaultdict(int):   *)
(* a code never assigned reads as 0.  The result is [ordre, err], err      *)
(* being the KeyError of self.taches_dict[tache_code].                     *)
(***************************************************************************)
in_degree_initial ==
    [c \in Codes |-> IF c \in taches THEN Cardinality(dependances[c]) ELSE 0]

(* Variant: a successor is enqueued as soon as one dependency is emitted. *)
RECURSIVE KahnSuccesseursSansAttente(_, _, _)
KahnSuccesseursSansAttente(succs, queue, in_degree) ==
    IF succs = <<>> THEN [queue |-> queue, in_degree |-> in_degree]
    ELSE KahnSuccesseursSansAttente(Tail(succs), Append(queue, Head(succs)),
                                    [in_degree EXCEPT ![Head(succs)] = @ - 1])

(* "for successeur in tache.successeurs.all()": decrement, enqueue at zero. *)
RECURSIVE KahnSuccesseurs(_, _, _)
KahnSuccesseurs(succs, queue, in_degree) ==
    IF succs = <<>> THEN [queue |-> queue, in_degree |-> in_degree]
    ELSE LET s == Head(succs)
             deg == [in_degree EXCEPT ![s] = @ - 1]
         IN KahnSuccesseurs(Tail(succs),
                            IF deg[s] = 0 THEN Append(queue, s) ELSE queue,
                            deg)

(* "while queue". *)
RECURSIVE KahnBFS(_, _, _)
KahnBFS(queue, ordre, in_degree) ==
    IF queue = <<>> THEN [ordre |-> ordre, err |-> FALSE]
    ELSE LET tache_code == Head(queue) IN
         IF tache_code \notin taches
         THEN [ordre |-> Append(ordre, tache_code), err |-> TRUE]
         ELSE LET r == KahnSuccesseurs(ParCode(successeurs(tache_code)),
                                       Tail(queue), in_degree)
              IN KahnBFS(r.queue, Append(ordre, tache_code), r.in_degree)

_tri_topologique ==
    KahnBFS(SelectSeq(ParCode(taches), LAMBDA c : in_degree_initial[c] = 0),
            <<>>, in_degree_initial)

(***************************************************************************)
(* _calculer_dates_tot: forward pass.  Result [debut, fin, err]: the two   *)
(* dicts as the method leaves them and whether it raised.                  *)
(***************************************************************************)
(* Variant: the earliest start taken as the smallest finish of the dependencies. *)
DebutTotMin(deps, fin) == Min({fin[d] : d \in deps})

(* "max(self.dates_fin_tot[d.code] for d in deps)". *)
DebutTot(deps, fin) == Max({fin[d] : d \in deps})

(* The loop over ordre, the durations of the tasks being dur. *)
RECURSIVE TotBoucleAvec(_, _, _, _)
TotBoucleAvec(ordre, debut, fin, dur) ==
    IF ordre = <<>> THEN [debut |-> debut, fin |-> fin, err |-> FALSE]
    ELSE LET tache_code == Head(ordre)
             deps == dependances[tache_code]
         IN IF tache_code \notin taches \/ \E d \in deps : d \notin DOMAIN fin
            THEN [debut |-> debut, fin |-> fin, err |-> TRUE]
            ELSE LET d1 == IF deps # {}
                           THEN Affecter(debut, tache_code, DebutTot(deps, fin))
                           ELSE Affecter(debut, tache_code, 0)
                     f1 == Affecter(fin, tache_code, d1[tache_code] + dur[tache_code])
                 IN TotBoucleAvec(Tail(ordre), d1, f1, dur)

TotBoucle(ordre, debut, fin) == TotBoucleAvec(ordre, debut, fin, duree)

_calculer_dates_tot ==
    LET debut0 == [c \in DOMAIN dates_debut_tot \cup taches |->
                      IF c \in taches THEN 0 ELSE dates_debut_tot[c]]
        fin0 == [c \in DOMAIN dates_fin_tot \cup taches |->
                      IF c \in taches THEN 0 ELSE dates_fin_tot[c]]
        tri == _tri_topologique
    IN IF tri.err THEN [debut |-> debut0, fin |-> fin0, err |-> TRUE]
       ELSE TotBoucle(tri.ordre, debut0, fin0)

(***************************************************************************)
(* _calculer_dates_tard: backward pass.  Result [debut, fin, err].         *)
(***************************************************************************)
RECURSIVE TardBoucle(_, _, _)
TardBoucle(ordre, debut, fin) ==
    IF ordre = <<>> THEN [debut |-> debut, fin |-> fin, err |-> FALSE]
    ELSE LET tache_code == Head(ordre)
             succs == successeurs(tache_code)
         IN IF tache_code \notin taches \/ \E s \in succs : s \notin DOMAIN debut
            THEN [debut |-> debut, fin |-> fin, err |-> TRUE]
            ELSE LET f1 == IF succs # {}
                           THEN Affecter(fin, tache_code, Min({debut[s] : s \in succs}))
                           ELSE fin
                     d1 == Affecter(debut, tache_code, f1[tache_code] - duree[tache_code])
                 IN TardBoucle(Tail(ordre), d1, f1)

(* Variant: tasks without successors anchored to the end of the project. *)
FinTardFinaleProjet(c, date_fin_projet) == date_fin_projet

(* The value a task without successors gets before the reverse loop. *)
FinTardFinale(c, date_fin_projet) == dates_fin_tot[c]

(* "Initialiser les dates au plus tard", then "Taches finales": the two    *)
(* dicts as they are when the reverse loop starts.                         *)
TardInitiales ==
    LET date_fin_projet == Max({dates_fin_tot[c] : c \in DOMAIN dates_fin_tot})
        fin0 == [c \in DOMAIN dates_fin_tard \cup taches |->
                    IF c \in taches
                    THEN IF successeurs(c) = {}
                         THEN FinTardFinale(c, date_fin_projet)
                         ELSE date_fin_projet
                    ELSE dates_fin_tard[c]]
        debut0 == [c \in DOMAIN dates_debut_tard \cup taches |->
                    IF c \in taches
                    THEN IF successeurs(c) = {}
                         THEN fin0[c] - duree[c]
                         ELSE date_fin_projet
                    ELSE dates_debut_tard[c]]
    IN [debut |-> debut0, fin |-> fin0]

_calculer_dates_tard ==
    IF DOMAIN dates_fin_tot = {}
    THEN [debut |-> dates_debut_tard, fin |-> dates_fin_tard, err |-> TRUE]
    ELSE
    LET tri == _tri_topologique
    IN IF tri.err
       THEN [debut |-> TardInitiales.debut, fin |-> TardInitiales.fin, err |-> TRUE]
       ELSE TardBoucle(Inverse(tri.ordre), TardInitiales.debut, TardInitiales.fin)

(***************************************************************************)
(* _calculer_marges: assigns marge_totale and marge_libre on the task      *)
(* objects, one task after the other.  Result [objets, err].               *)
(***************************************************************************)
(* Variant: the slack measured from the latest finish. *)
MargeTotaleDepuisFin(c) == dates_fin_tard[c] - dates_debut_tot[c]

MargeTotale(c) == dates_debut_tard[c] - dates_debut_tot[c]

(* Variant: marge_libre read from the object before marge_totale is assigned. *)
MargeLibreFinaleAncienne(ancien, nouveau) == ancien.marge_totale

(* "tache.marge_libre = tache.marge_totale" for a task without successors: *)
(* ancien and nouveau are the task object before and after the assignment  *)
(* of marge_totale.                                                        *)
MargeLibreFinale(ancien, nouveau) == nouveau.marge_totale

RECURSIVE MargesBoucle(_, _)
MargesBoucle(liste, obj) ==
    IF liste = <<>> THEN [objets |-> obj, err |-> FALSE]
    ELSE LET c == Head(liste)
             succs == successeurs(c)
         IN IF c \notin DOMAIN dates_debut_tard \/ c \notin DOMAIN dates_debut_tot
            THEN [objets |-> obj, err |-> TRUE]
            ELSE LET o1 == [obj EXCEPT ![c].marge_totale = Some(MargeTotale(c))] IN
                 IF succs # {}
                 THEN IF (\E s \in succs : s \notin DOMAIN dates_debut_tot)
                         \/ c \notin DOMAIN dates_fin_tot
                      THEN [objets |-> o1, err |-> TRUE]
                      ELSE MargesBoucle(Tail(liste),
                              [o1 EXCEPT ![c].marge_libre =
                                  Some(Min({dates_debut_tot[s] : s \in succs})
                                       - dates_fin_tot[c])])
                 ELSE MargesBoucle(Tail(liste),
                              [o1 EXCEPT ![c].marge_libre = MargeLibreFinale(obj[c], o1[c])])

_calculer_marges == MargesBoucle(ParCode(taches), objets)

(***************************************************************************)
(* _sauvegarder_resultats: copies the four dates onto every task object    *)
(* and saves it.                                                           *)
(***************************************************************************)
_sauvegarder_resultats ==
    [c \in Codes |->
        IF c \in taches
        THEN [objets[c] EXCEPT !.date_debut_tot = Some(dates_debut_tot[c]),
                               !.date_fin_tot = Some(dates_fin_tot[c]),
                               !.date_debut_tard = Some(dates_debut_tard[c]),
                               !.date_fin_tard = Some(dates_fin_tard[c])]
        ELSE objets[c]]

(* Projet.duree_totale, the tasks of the project being the collection. *)
duree_totale ==
    IF taches = {} THEN 0
    ELSE LET dates_fin == {base[c].date_fin_tot[1] :
                              c \in {t \in taches : base[t].date_fin_tot # None}}
         IN IF dates_fin # {} THEN Max(dates_fin) ELSE 0

(* Tache.est_critique *)
est_critique(o) == IF o.marge_totale # None THEN o.marge_totale = Some(0) ELSE FALSE

(* PertCalculator.get_chemin_critique: the tasks with marge_totale == 0. *)
get_chemin_critique == {c \in taches : objets[c].marge_totale = Some(0)}

(***************************************************************************)
(* State machine.  Init: a calculator freshly constructed over a           *)
(* collection of tasks whose durations passed the validation layer and     *)
(* whose derived fields were never computed.                               *)
(***************************************************************************)
DureesValides == {d \in (0 - MaxDuree)..MaxDuree : TacheClean(d) /\ CleanDuree(d)}

Init ==
    /\ duree \in [Codes -> DureesValides]
    /\ dependances \in [Codes -> SUBSET Codes]
    /\ taches \in SUBSET Codes
    /\ objets = [c \in Codes |-> ChampsVides]
    /\ base = [c \in Codes |-> ChampsVides]
    /\ dates_debut_tot = EmptyDict
    /\ dates_fin_tot = EmptyDict
    /\ dates_debut_tard = EmptyDict
    /\ dates_fin_tard = EmptyDict
    /\ pc = "appel"
    /\ resultat = None
    /\ erreur = "aucune"
    /\ appels = 0
    /\ avant = [objets |-> objets, base |-> base]
    /\ precedent = [resultat |-> None, objets |-> objets, base |-> base]

(* calculer(), entry: "if not self.taches: return True". *)
Calculer ==
    /\ pc = "appel"
    /\ appels' = appels + 1
    /\ avant' = [objets |-> objets, base |-> base]
    /\ erreur' = "aucune"
    /\ IF taches = {}
       THEN pc' = "retour" /\ resultat' = Some(TRUE)
       ELSE pc' = "verif" /\ resultat' = None
    /\ UNCHANGED <<entree, objets, base, dicts, precedent>>

(* calculer(), step 1: raise ValueError on a circular dependency. *)
VerifierDependances ==
    /\ pc = "verif"
    /\ IF _has_circular_dependency
       THEN pc' = "retour" /\ resultat' = Some(FALSE) /\ erreur' = "ValueError"
       ELSE pc' = "tot" /\ UNCHANGED <<resultat, erreur>>
    /\ UNCHANGED <<entree, objets, base, dicts, appels, avant, precedent>>

(* calculer(), step 2. *)
CalculerDatesTot ==
    /\ pc = "tot"
    /\ LET r == _calculer_dates_tot IN
       /\ dates_debut_tot' = r.debut
       /\ dates_fin_tot' = r.fin
       /\ IF r.err
          THEN pc' = "retour" /\ resultat' = Some(FALSE) /\ erreur' = "KeyError"
          ELSE pc' = "tard" /\ UNCHANGED <<resultat, erreur>>
    /\ UNCHANGED <<entree, objets, base, dates_debut_tard, dates_fin_tard,
                   appels, avant, precedent>>

(* calculer(), step 3. *)
CalculerDatesTard ==
    /\ pc = "tard"
    /\ LET r == _calculer_dates_tard IN
       /\ dates_debut_tard' = r.debut
       /\ dates_fin_tard' = r.fin
       /\ IF r.err
          THEN pc' = "retour" /\ resultat' = Some(FALSE) /\ erreur' = "KeyError"
          ELSE pc' = "marges" /\ UNCHANGED <<resultat, erreur>>
    /\ UNCHANGED <<entree, objets, base, dates_debut_tot, dates_fin_tot,
                   appels, avant, precedent>>

(* calculer(), step 4. *)
CalculerMarges ==
    /\ pc = "marges"
    /\ LET r == _calculer_marges IN
       /\ objets' = r.objets
       /\ IF r.err
          THEN pc' = "retour" /\ resultat' = Some(FALSE) /\ erreur' = "KeyError"
          ELSE pc' = "sauvegarde" /\ UNCHANGED <<resultat, erreur>>
    /\ UNCHANGED <<entree, base, dicts, appels, avant, precedent>>

(* calculer(), step 5 and "return True". *)
SauvegarderResultats ==
    /\ pc = "sauvegarde"
    /\ objets' = _sauvegarder_resultats
    /\ base' = [c \in Codes |-> IF c \in taches THEN objets'[c] ELSE base[c]]
    /\ pc' = "retour"
    /\ resultat' = Some(TRUE)
    /\ UNCHANGED <<entree, dicts, erreur, appels, avant, precedent>>

(* The caller runs calculer() again on the same PertCalculator. *)
Recalculer ==
    /\ pc = "retour"
    /\ appels < MaxAppels
    /\ precedent' = [resultat |-> resultat, objets |-> objets, base |-> base]
    /\ pc' = "appel"
    /\ UNCHANGED <<entree, objets, base, dicts, resultat, erreur, appels, avant>>

(* _recalculer_pert: PertCalculator(projet.taches.all()), a new calculator *)
(* over task objects read again from the database ("if taches.exists()").  *)
NouveauCalculateur ==
    /\ pc = "retour"
    /\ appels < MaxAppels
    /\ taches # {}
    /\ precedent' = [resultat |-> resultat, objets |-> objets, base |-> base]
    /\ objets' = base
    /\ dates_debut_tot' = EmptyDict
    /\ dates_fin_tot' = EmptyDict
    /\ dates_debut_tard' = EmptyDict
    /\ dates_fin_tard' = EmptyDict
    /\ pc' = "appel"
    /\ UNCHANGED <<entree, base, resultat, erreur, appels, avant>>

Next ==
    \/ Calculer
    \/ VerifierDependances
    \/ CalculerDatesTot
    \/ CalculerDatesTard
    \/ CalculerMarges
    \/ SauvegarderResultats
    \/ Recalculer
    \/ NouveauCalculateur

Spec == Init /\ [][Next]_vars

(***************************************************************************)
(* Vocabulary of the properties.                                           *)
(***************************************************************************)
Retour == pc = "retour"
Succes == pc = "retour" /\ resultat = Some(TRUE)
Echec == pc = "retour" /\ resultat = Some(FALSE)

(* Every dependency of a task of the collection is in the collection. *)
Resolues == \A c \in taches : dependances[c] \subseteq taches

(* Tasks of the collection reachable from the set S along dependency edges *)
(* that stay inside the collection, in one step or more.                   *)
RECURSIVE Fermeture(_)
Fermeture(S) ==
    LET T == S \cup UNION {dependances[c] \cap taches : c \in S}
    IN IF T = S THEN S ELSE Fermeture(T)

Ancetres(c) == Fermeture(dependances[c] \cap taches)

(* The dependency relation over the collection has a cycle. *)
Cyclique == \E c \in taches : c \in Ancetres(c)

Calcules(o) ==
    /\ o.date_debut_tot # None /\ o.date_fin_tot # None
    /\ o.date_debut_tard # None /\ o.date_fin_tard # None
    /\ o.marge_totale # None /\ o.marge_libre # None

Inchanges == objets = avant.objets /\ base = avant.base

(* C1: whenever calculer() returns True on a non-empty collection, every   *)
(* task has marge_totale >= 0, on the object and as saved.                 *)
C1_MargeTotalePositive ==
    (Succes /\ taches # {}) =>
        \A c \in taches :
            /\ objets[c].marge_totale # None
            /\ objets[c].marge_totale[1] >= 0
            /\ base[c].marge_totale = objets[c].marge_totale

(* C2: after calculer() returns True, every task has                       *)
(* date_fin_tot = date_debut_tot + duree and                               *)
(* date_fin_tard = date_debut_tard + duree.                                *)
C2_FinEgaleDebutPlusDuree ==
    (Succes /\ taches # {}) =>
        \A c \in taches :
            /\ Calcules(base[c])
            /\ base[c].date_fin_tot[1] = base[c].date_debut_tot[1] + duree[c]
            /\ base[c].date_fin_tard[1] = base[c].date_debut_tard[1] + duree[c]

(* C3: after a successful calculer() on a non-empty collection, a task is  *)
(* reported critical (est_critique, member of get_chemin_critique) iff its *)
(* marge_totale is 0, and there is at least one critical task.             *)
C3_CritiqueNonVide ==
    (Succes /\ taches # {}) =>
        /\ \A c \in taches :
              /\ est_critique(objets[c]) <=> (c \in get_chemin_critique)
              /\ est_critique(base[c]) <=> (base[c].marge_totale = Some(0))
        /\ get_chemin_critique # {}

DictsVides ==
    /\ DOMAIN dates_debut_tot = {} /\ DOMAIN dates_fin_tot = {}
    /\ DOMAIN dates_debut_tard = {} /\ DOMAIN dates_fin_tard = {}

(* C4: when the dependency relation over the collection has a cycle,       *)
(* calculer() never reaches the forward pass or any later stage, it        *)
(* returns False through the ValueError of the cycle check, and no date or *)
(* slack is computed (the dicts stay empty), assigned or saved.            *)
C4_CycleRefuse ==
    Cyclique =>
        /\ pc \in {"appel", "verif", "retour"}
        /\ Retour => (resultat = Some(FALSE) /\ erreur = "ValueError")
        /\ DictsVides
        /\ Inchanges
        /\ \A c \in Codes : objets[c] = ChampsVides /\ base[c] = ChampsVides

(* A cycle that the first task of the collection neither is on nor leads   *)
(* to has been refused.                                                    *)
C4_Witness ==
    /\ Echec /\ Cyclique
    /\ Cardinality(taches) = MaxTaches
    /\ Min(taches) \notin Ancetres(Min(taches))
    /\ \A c \in {Min(taches)} \cup Ancetres(Min(taches)) : c \notin Ancetres(c)

(* C5: when a task of the collection has a dependency outside the          *)
(* collection, calculer() does not return True and leaves the derived      *)
(* fields of every task as they were.                                      *)
C5_DependanceNonResolue ==
    (Retour /\ ~Resolues) => (resultat = Some(FALSE) /\ Inchanges)

(* C6: a collection containing a task with duree <= 0 that passed          *)
(* Tache.clean and TacheForm.clean_duree is never scheduled: calculer()    *)
(* fails on it and leaves no derived field.                                *)
C6_DureeNonPositive ==
    (Retour /\ \E c \in taches : duree[c] <= 0) =>
        (resultat = Some(FALSE) /\ \A c \in taches : ~Calcules(base[c]))

(* C7: calculer() is all-or-nothing.  If it returns False the derived      *)
(* fields of every task, in memory and as saved, are what they were before *)
(* the call; if it returns True all six fields of every task of the        *)
(* collection carry the values of this run; saving starts only once the    *)
(* slack of every task has been assigned.                                  *)
C7_ToutOuRien ==
    /\ Echec => Inchanges
    /\ (Succes /\ taches # {}) =>
          \A c \in taches :
              /\ objets[c].date_debut_tot = Some(dates_debut_tot[c])
              /\ objets[c].date_fin_tot = Some(dates_fin_tot[c])
              /\ objets[c].date_debut_tard = Some(dates_debut_tard[c])
              /\ objets[c].date_fin_tard = Some(dates_fin_tard[c])
              /\ objets[c].marge_totale = Some(MargeTotale(c))
              /\ objets[c].marge_libre # None
              /\ base[c] = objets[c]
    /\ pc = "sauvegarde" =>
          /\ base = avant.base
          /\ \A c \in taches : objets[c].marge_totale = Some(MargeTotale(c))
                               /\ objets[c].marge_libre # None
    /\ pc \in {"verif", "tot", "tard", "marges"} => (resultat = None /\ Inchanges)

(* C8: after a successful calculer() on an acyclic collection whose        *)
(* dependencies all lie in it, a task without successors has               *)
(* date_fin_tard equal to its own date_fin_tot, any other task has         *)
(* date_fin_tard equal to the minimum of the final date_debut_tard of its  *)
(* direct successors, and date_debut_tard = date_fin_tard - duree in both  *)
(* cases.                                                                  *)
C8_DatesTard ==
    (Succes /\ ~Cyclique /\ Resolues) =>
        \A c \in taches :
            /\ Calcules(base[c])
            /\ \A s \in successeurs(c) : base[s].date_debut_tard # None
            /\ IF successeurs(c) = {}
               THEN base[c].date_fin_tard = base[c].date_fin_tot
               ELSE base[c].date_fin_tard =
                        Some(Min({base[s].date_debut_tard[1] : s \in successeurs(c)}))
            /\ base[c].date_debut_tard = Some(base[c].date_fin_tard[1] - duree[c])

(* A successful run in which a task without successors finishes before the *)
(* end of the project and another task has a successor.                    *)
C8_Witness ==
    /\ Succes /\ ~Cyclique /\ Resolues
    /\ \E c \in taches :
          /\ successeurs(c) = {}
          /\ \E d \in taches : base[c].date_fin_tot[1] < base[d].date_fin_tot[1]
    /\ \E c \in taches : successeurs(c) # {}

(* C9: a second calculer() on the same tasks, on the same calculator or on *)
(* a new one, returns what the first returned and leaves the same derived  *)
(* fields on every task, in memory and as saved.                           *)
C9_Idempotence ==
    (Retour /\ appels >= 2) =>
        /\ resultat = precedent.resultat
        /\ objets = precedent.objets
        /\ base = precedent.base

(* A second successful run over tasks that have dependencies, some of them *)
(* without successors.                                                     *)
C9_Witness ==
    /\ Succes /\ appels = 2
    /\ precedent.resultat = Some(TRUE)
    /\ \E c \in taches : dependances[c] # {}
    /\ \E c \in taches : successeurs(c) = {} /\ objets[c].marge_libre # None

(* C10: on an acyclic collection whose dependencies all lie in it,         *)
(* calculer() ends with a successful result.                               *)
C10_TermineAvecSucces ==
    (Retour /\ ~Cyclique /\ Resolues) => resultat = Some(TRUE)

(***************************************************************************)
(* Rescheduling with other durations: the end of the project that the      *)
(* forward pass and "date_fin_projet = max(self.dates_fin_tot.values())"   *)
(* give when the durations of the tasks are dur.                           *)
(***************************************************************************)
DureeProjetAvec(dur) ==
    LET zero == [c \in taches |-> 0]
        r == TotBoucleAvec(_tri_topologique.ordre, zero, zero, dur)
    IN Max({r.fin[c] : c \in taches})

(* The durations with task t delayed by d. *)
Retarde(t, d) == [duree EXCEPT ![t] = @ + d]

DureesPositives == \A c \in taches : duree[c] > 0

Position(s, c) ==
    IF \E i \in 1..Len(s) : s[i] = c
    THEN Min({i \in 1..Len(s) : s[i] = c})
    ELSE 0

ZeroDict == [c \in taches |-> 0]

DeuxVersUn(a, b, d) ==
    /\ taches = {a, b, d} /\ Cardinality({a, b, d}) = 3
    /\ dependances[d] = {a, b} /\ dependances[a] = {} /\ dependances[b] = {}

(* C13: after a successful calculer() on an acyclic collection whose       *)
(* dependencies all lie in it, date_debut_tot is 0 for a task without      *)
(* dependencies and otherwise the maximum of the final date_fin_tot of its *)
(* direct dependencies; the duration of the project (Projet.duree_totale,  *)
(* date_fin_projet) is the maximum date_fin_tot over all tasks.  With A:5  *)
(* and B:3 both feeding D:2 the forward pass gives date_debut_tot(D) = 5   *)
(* and a project of 7.                                                     *)
C13_DatesTot ==
    (Succes /\ ~Cyclique /\ Resolues) =>
        /\ \A c \in taches :
              /\ Calcules(base[c])
              /\ \A d \in dependances[c] : base[d].date_fin_tot # None
              /\ base[c].date_debut_tot =
                    IF dependances[c] = {} THEN Some(0)
                    ELSE Some(Max({base[d].date_fin_tot[1] : d \in dependances[c]}))
        /\ taches # {} =>
              /\ duree_totale = Max({base[c].date_fin_tot[1] : c \in taches})
              /\ duree_totale = Max({dates_fin_tot[c] : c \in DOMAIN dates_fin_tot})
        /\ \A a, b, d \in taches : DeuxVersUn(a, b, d) =>
              LET dur == [c \in Codes |-> IF c = a THEN 5 ELSE IF c = b THEN 3 ELSE 2]
                  r == TotBoucleAvec(_tri_topologique.ordre, ZeroDict, ZeroDict, dur)
              IN r.debut[d] = 5 /\ DureeProjetAvec(dur) = 7

(* Two tasks of durations 2 and 1 feeding a third of duration 1: the third *)
(* starts at 2, the project lasts 3, the longer feeder is critical and the *)
(* shorter has a total slack of 1.                                         *)
C13_Witness ==
    /\ Succes
    /\ \E a, b, d \in taches :
          /\ DeuxVersUn(a, b, d)
          /\ \A c \in Codes \ {d} : dependances[c] = {}
          /\ duree[a] = 2 /\ duree[b] = 1 /\ duree[d] = 1
          /\ base[d].date_debut_tot = Some(2)
          /\ duree_totale = 3
          /\ base[a].marge_totale = Some(0)
          /\ base[b].marge_totale = Some(1)

(* C14: after a successful calculer(), a task with at least one successor  *)
(* has marge_libre = min(date_debut_tot of its direct successors) minus    *)
(* its own date_fin_tot, and a task without successor has                  *)
(* marge_libre = marge_totale.                                             *)
C14_MargeLibre ==
    (Succes /\ taches # {}) =>
        \A c \in taches :
            /\ Calcules(base[c])
            /\ \A s \in successeurs(c) : base[s].date_debut_tot # None
            /\ IF successeurs(c) # {}
               THEN base[c].marge_libre =
                       Some(Min({base[s].date_debut_tot[1] : s \in successeurs(c)})
                            - base[c].date_fin_tot[1])
               ELSE base[c].marge_libre = base[c].marge_totale

(* A successful run with a task that has a successor and a positive free   *)
(* slack, and a task without successor.                                    *)
C14_Witness ==
    /\ Succes
    /\ \E c \in taches : successeurs(c) # {} /\ base[c].marge_libre[1] >= 1
    /\ \E c \in taches : successeurs(c) = {} /\ base[c].marge_libre # None

SuccesseursDansCollection == \A c \in taches : successeurs(c) \subseteq taches

(* C15: after a successful calculer() on an acyclic collection whose       *)
(* dependencies and successors all lie in it, every task has               *)
(* 0 <= marge_libre <= marge_totale.                                       *)
C15_MargeLibreBornee ==
    (Succes /\ ~Cyclique /\ Resolues /\ SuccesseursDansCollection) =>
        \A c \in taches :
            /\ base[c].marge_libre # None /\ base[c].marge_totale # None
            /\ 0 <= base[c].marge_libre[1]
            /\ base[c].marge_libre[1] <= base[c].marge_totale[1]

(* A successful run with a task of positive free slack next to a task with *)
(* a successor and no slack.                                               *)
C15_Witness ==
    /\ Succes /\ ~Cyclique /\ Resolues /\ SuccesseursDansCollection
    /\ \E c \in taches : base[c].marge_libre[1] >= 1
    /\ \E c \in taches : successeurs(c) # {} /\ base[c].marge_totale = Some(0)

====
